---- MODULE Spec2Model ----
(***************************************************************************)
(* Model of src/app2.py: the find-amenities endpoint of the nearby-amenity *)
(* finder.  One request is handled at a time: the handler parses the       *)
(* request, queries the Overpass API, ranks the returned nodes by          *)
(* haversine distance and answers.                                         *)
(*                                                                         *)
(* Python values are modelled as tagged records (t = "none", "num", "nan", *)
(* "str"), Python dicts as functions from their keys.  Lengths are         *)
(* fixed-point kilometres with three decimals, i.e. integer metres:        *)
(* radius 15 (km) is 15000.  Coordinates are whole degrees.                *)
(***************************************************************************)
EXTENDS Integers, Sequences, FiniteSets, TLC

VARIABLES pc, request, overpass_query, overpass_reply, raw_results,
          error_message, response

vars == <<pc, request, overpass_query, overpass_reply, raw_results,
          error_message, response>>

\* Longest "elements" array of an Overpass answer.
MaxElements == 3

(***************************************************************************)
(* Python values                                                           *)
(***************************************************************************)
None == [t |-> "none", n |-> 0, s |-> ""]
NaN == [t |-> "nan", n |-> 0, s |-> ""]
Num(n) == [t |-> "num", n |-> n, s |-> ""]
Str(s) == [t |-> "str", n |-> 0, s |-> s]

\* dict.get(key, default)
get(d, k, default) == IF k \in DOMAIN d THEN d[k] ELSE default

\* truth value of a Python object, as used by filter(None, ...) and `if x:`
truthy(v) ==
    CASE v.t = "none" -> FALSE
      [] v.t = "str" -> v.s # ""
      [] v.t = "num" -> v.n # 0
      [] OTHER -> TRUE

\* The strings of the model that float() accepts, with their values.
NumericStrings == ("0" :> 0) @@ ("91" :> 91)

\* float(v): the value, or the exception raised.
float(v) ==
    CASE v.t = "num" -> [exc |-> "", val |-> v.n]
      [] v.t = "str" /\ v.s \in DOMAIN NumericStrings ->
            [exc |-> "", val |-> NumericStrings[v.s]]
      [] v.t = "str" -> [exc |-> "ValueError", val |-> 0]
      [] OTHER -> [exc |-> "TypeError", val |-> 0]

\* sep.join(parts) for a sequence of plain strings
RECURSIVE join(_, _)
join(sep, parts) ==
    IF parts = <<>> THEN ""
    ELSE IF Len(parts) = 1 THEN parts[1]
    ELSE parts[1] \o sep \o join(sep, Tail(parts))

(***************************************************************************)
(* haversine (lines 14-24), tabulated in metres for the whole-degree       *)
(* coordinates of the model: R = 6371, a = sin^2(dlat/2) +                 *)
(* cos(lat1) cos(lat2) sin^2(dlon/2), distance = 2 R atan2(sqrt a,         *)
(* sqrt(1-a)), rounded to the metre.                                       *)
(***************************************************************************)
haversine(lat1, lon1, lat2, lon2) ==
    CASE <<lat1, lon1, lat2, lon2>> = <<0, 0, 0, 0>> -> 0
      [] <<lat1, lon1, lat2, lon2>> = <<0, 0, 0, 1>> -> 111195
      [] <<lat1, lon1, lat2, lon2>> = <<0, 0, 0, -1>> -> 111195
      [] <<lat1, lon1, lat2, lon2>> = <<0, 0, 0, 2>> -> 222390
      [] <<lat1, lon1, lat2, lon2>> = <<91, 0, 0, 0>> -> 10118738
      [] <<lat1, lon1, lat2, lon2>> = <<91, 0, 0, 1>> -> 10118721
      [] <<lat1, lon1, lat2, lon2>> = <<91, 0, 0, -1>> -> 10118721
      [] <<lat1, lon1, lat2, lon2>> = <<91, 0, 0, 2>> -> 10118671
      [] <<lat1, lon1, lat2, lon2>> = <<0, 181, 0, 0>> -> 19903892
      [] <<lat1, lon1, lat2, lon2>> = <<0, 181, 0, 1>> -> 20015087
      [] <<lat1, lon1, lat2, lon2>> = <<0, 181, 0, -1>> -> 19792697
      [] <<lat1, lon1, lat2, lon2>> = <<0, 181, 0, 2>> -> 19903892
      [] <<lat1, lon1, lat2, lon2>> = <<91, 181, 0, 0>> -> 9896365
      [] <<lat1, lon1, lat2, lon2>> = <<91, 181, 0, 1>> -> 9896348
      [] <<lat1, lon1, lat2, lon2>> = <<91, 181, 0, -1>> -> 9896416
      [] <<lat1, lon1, lat2, lon2>> = <<91, 181, 0, 2>> -> 9896365

(***************************************************************************)
(* process_and_sort_results (lines 27-54)                                  *)
(***************************************************************************)
\* What haversine(user_lat, user_lon, item['latitude'], item['longitude'])
\* raises inside the try block: KeyError for a missing key, TypeError from
\* math.radians for None or a string; "" when it returns.
item_raises(item) ==
    IF "latitude" \notin DOMAIN item \/ "longitude" \notin DOMAIN item
    THEN "KeyError"
    ELSE IF item["latitude"].t \notin {"num", "nan"}
              \/ item["longitude"].t \notin {"num", "nan"}
         THEN "TypeError"
         ELSE ""

\* `dist <= search_radius` (line 41); a NaN coordinate gives a NaN distance,
\* for which every comparison is false.
within_radius_strict(user_lat, user_lon, search_radius, item) ==
    /\ item["latitude"].t = "num"
    /\ item["longitude"].t = "num"
    /\ haversine(user_lat, user_lon, item["latitude"].n, item["longitude"].n)
          < search_radius

within_radius(user_lat, user_lon, search_radius, item) ==
    /\ item["latitude"].t = "num"
    /\ item["longitude"].t = "num"
    /\ haversine(user_lat, user_lon, item["latitude"].n, item["longitude"].n)
          <= search_radius

\* f'https://www.google.com/maps/search/?api=1&query={lat},{lon}'
google_map_link(lat, lon) ==
    "https://www.google.com/maps/search/?api=1&query="
        \o ToString(lat) \o "," \o ToString(lon)

\* The dict appended for a retained item (lines 42-50).
result_entry(user_lat, user_lon, item) ==
    [name |-> get(item, "name", Str("N/A")),
     address |-> get(item, "Address", Str("")),
     distance_km |-> haversine(user_lat, user_lon,
                               item["latitude"].n, item["longitude"].n),
     latitude |-> item["latitude"].n,
     longitude |-> item["longitude"].n,
     google_map_link |-> google_map_link(item["latitude"].n,
                                         item["longitude"].n)]

\* The for loop with its per-item try/except (lines 32-52): final_results.
RECURSIVE final_results_abort(_, _, _, _)
final_results_abort(user_lat, user_lon, search_radius, results_list) ==
    IF results_list = <<>> THEN <<>>
    ELSE LET item == Head(results_list)
         IN IF item_raises(item) # "" THEN <<>>
            ELSE (IF within_radius(user_lat, user_lon, search_radius, item)
                  THEN <<result_entry(user_lat, user_lon, item)>>
                  ELSE <<>>)
                 \o final_results_abort(user_lat, user_lon, search_radius,
                                        Tail(results_list))

RECURSIVE final_results(_, _, _, _)
final_results(user_lat, user_lon, search_radius, results_list) ==
    IF results_list = <<>> THEN <<>>
    ELSE LET item == Head(results_list)
             rest == final_results(user_lat, user_lon, search_radius,
                                   Tail(results_list))
         IN IF item_raises(item) # "" THEN rest
            ELSE IF within_radius(user_lat, user_lon, search_radius, item)
                 THEN <<result_entry(user_lat, user_lon, item)>> \o rest
                 ELSE rest

\* sorted(final_results, key=lambda p: p['distance_km']): Python's sort is
\* stable, so an entry goes after every entry whose key is not greater.
sorted_none(seq) == seq

RECURSIVE sorted_unstable(_)
sorted_unstable(seq) ==
    IF seq = <<>> THEN <<>>
    ELSE LET front == sorted_unstable(SubSeq(seq, 1, Len(seq) - 1))
             x == seq[Len(seq)]
             k == Cardinality({i \in 1..Len(front) :
                                 front[i].distance_km < x.distance_km})
         IN SubSeq(front, 1, k) \o <<x>> \o SubSeq(front, k + 1, Len(front))

RECURSIVE sorted(_)
sorted(seq) ==
    IF seq = <<>> THEN <<>>
    ELSE LET front == sorted(SubSeq(seq, 1, Len(seq) - 1))
             x == seq[Len(seq)]
             k == Cardinality({i \in 1..Len(front) :
                                 front[i].distance_km <= x.distance_km})
         IN SubSeq(front, 1, k) \o <<x>> \o SubSeq(front, k + 1, Len(front))

process_and_sort_results(user_lat, user_lon, search_radius, results_list) ==
    sorted(final_results(user_lat, user_lon, search_radius, results_list))

(***************************************************************************)
(* fetch_from_overpass (lines 57-119)                                      *)
(***************************************************************************)
\* The amenity categories queried for an amenity_type (lines 62-66).
amenities_for_same(amenity_type) ==
    IF amenity_type \in {"pharmacy", "hospital"} THEN <<amenity_type>>
    ELSE <<>>

amenities_for(amenity_type) ==
    IF amenity_type = "pharmacy" THEN <<"pharmacy", "hospital">>
    ELSE IF amenity_type = "hospital" THEN <<"hospital">>
    ELSE <<>>

\* str.title() on the amenity types of the model
title(s) ==
    CASE s = "pharmacy" -> "Pharmacy"
      [] s = "hospital" -> "Hospital"

\* The query posted to OVERPASS_URL (lines 60-85): one
\* node["amenity"=a](around:search_radius_m,user_lat,user_lon) per category.
\* search_radius_m = search_radius * 1000 is the radius in metres.
query_for(user_lat, user_lon, search_radius, amenity_type) ==
    [amenities |-> amenities_for(amenity_type),
     search_radius_m |-> search_radius,
     user_lat |-> user_lat,
     user_lon |-> user_lon]

\* filter(None, seq): the truthy entries, as plain strings
RECURSIVE filter_none(_)
filter_none(parts) ==
    IF parts = <<>> THEN <<>>
    ELSE (IF truthy(Head(parts)) THEN <<Head(parts).s>> ELSE <<>>)
         \o filter_none(Tail(parts))

\* The item built from a node element (lines 96-116).
item_from_node(element, amenity_type) ==
    LET lat == get(element, "lat", None)
        lon == get(element, "lon", None)
        address_tags == get(element, "tags", <<>>)
        name == get(address_tags, "name",
                    Str("Unnamed " \o title(amenity_type) \o " (OSM)"))
        address_parts == <<get(address_tags, "addr:housename", None),
                           get(address_tags, "addr:street", None),
                           get(address_tags, "addr:city", None),
                           get(address_tags, "addr:postcode", None)>>
        address == join(", ", filter_none(address_parts))
    IN [name |-> name,
        address |-> Str(address),
        latitude |-> lat,
        longitude |-> lon,
        google_map_link |-> [lat |-> lat, lon |-> lon]]

\* The loop over data.get('elements', []) (lines 94-116): items_from_api.
\* Only called when every element has a 'type'.
RECURSIVE items_from_api(_, _)
items_from_api(elements, amenity_type) ==
    IF elements = <<>> THEN <<>>
    ELSE (IF Head(elements)["type"] = "node"
          THEN <<item_from_node(Head(elements), amenity_type)>>
          ELSE <<>>)
         \o items_from_api(Tail(elements), amenity_type)

\* The whole call, given what the Overpass server answers.  raised is the
\* exception that leaves the function ("" when it returns), items and error
\* are the returned pair (error "" is None).
\*   ConnectionError: requests.post fails; HTTPError: raise_for_status on a
\*   non-2xx answer; not_json: response.json() raises
\*   requests.exceptions.JSONDecodeError (a RequestException since
\*   requests 2.27).  All three are RequestExceptions and are caught
\*   (lines 88-90).
\*   json_array: the body is JSON but not an object, data.get raises
\*   AttributeError outside the try; an element without 'type' raises
\*   KeyError at line 95.
fetch_from_overpass(amenity_type, reply) ==
    IF reply.kind \in {"ConnectionError", "HTTPError", "not_json"}
    THEN [raised |-> "", items |-> <<>>,
          error |-> "External API Error: Overpass API request failed. "
                    \o "Please check connection and try again. Detail: "
                    \o reply.kind]
    ELSE IF reply.kind = "json_array"
    THEN [raised |-> "AttributeError", items |-> <<>>, error |-> ""]
    ELSE IF \E i \in 1..Len(reply.elements) :
               "type" \notin DOMAIN reply.elements[i]
    THEN [raised |-> "KeyError", items |-> <<>>, error |-> ""]
    ELSE [raised |-> "",
          items |-> items_from_api(reply.elements, amenity_type),
          error |-> ""]

(***************************************************************************)
(* find_amenities (lines 175-213)                                          *)
(***************************************************************************)
\* The try block of lines 178-190.  exc is the exception raised ("" when
\* none); radius is converted first, then the coordinates are checked for
\* None and converted.
parse_request_lenient(data) ==
    LET user_lat_str == get(data, "user_lat", None)
        user_lon_str == get(data, "user_lon", None)
        radius == float(get(data, "radius", Num(15 * 1000)))
        amenity_type == get(data, "amenity_type", Str("pharmacy"))
        exc == IF radius.exc # "" THEN radius.exc
               ELSE IF user_lat_str = None \/ user_lon_str = None
                    THEN "ValueError"
                    ELSE ""
    IN [exc |-> exc,
        user_lat |-> float(user_lat_str).val,
        user_lon |-> float(user_lon_str).val,
        search_radius |-> radius.val,
        amenity_type |-> amenity_type.s]

parse_request(data) ==
    LET user_lat_str == get(data, "user_lat", None)
        user_lon_str == get(data, "user_lon", None)
        radius == float(get(data, "radius", Num(15 * 1000)))
        amenity_type == get(data, "amenity_type", Str("pharmacy"))
        exc == IF radius.exc # "" THEN radius.exc
               ELSE IF user_lat_str = None \/ user_lon_str = None
                    THEN "ValueError"
                    ELSE IF float(user_lat_str).exc # ""
                         THEN float(user_lat_str).exc
                         ELSE float(user_lon_str).exc
    IN [exc |-> exc,
        user_lat |-> float(user_lat_str).val,
        user_lon |-> float(user_lon_str).val,
        search_radius |-> radius.val,
        amenity_type |-> amenity_type.s]

\* jsonify({"error": ...}), status
error_response(status, message) ==
    [status |-> status, json |-> TRUE, error |-> message, body |-> <<>>]

\* jsonify(list), 200
list_response(amenities) ==
    [status |-> 200, json |-> TRUE, error |-> "", body |-> amenities]

\* An exception that leaves the view function: Flask answers 500 with its
\* own HTML error page, not with a JSON body.
unhandled_response ==
    [status |-> 500, json |-> FALSE, error |-> "", body |-> <<>>]

\* The answer to a request that failed to parse (lines 192-197).
bad_request(exc) ==
    IF exc = "ValueError"
    THEN error_response(400, "Invalid request: Coordinates are missing or "
            \o "invalid. Please search for a location or use Geolocation "
            \o "first.")
    ELSE error_response(400, "Invalid request: " \o exc)

(***************************************************************************)
(* The requests and Overpass answers of the model                          *)
(***************************************************************************)
Absent == [t |-> "absent", n |-> 0, s |-> ""]

\* The JSON object with the given members, leaving out the Absent ones.
json_object(members) ==
    [k \in {m \in DOMAIN members : members[m] # Absent} |-> members[k]]

Requests ==
    {json_object([user_lat |-> lat, user_lon |-> lon, radius |-> r,
                  amenity_type |-> a]) :
        lat \in {Absent, Str("abc"), Str("0"), Num(91)},
        lon \in {Absent, Str("abc"), Num(0), Num(181)},
        r \in {Absent, Str("abc"), Num(0), Num(0 - 1000), Num(111195)},
        a \in {Absent, Str("hospital")}}

Elements ==
    { \* a named pharmacy one degree east, with an empty housename tag
      [type |-> "node", id |-> 1, lat |-> Num(0), lon |-> Num(1),
       tags |-> ("name" :> Str("A")) @@ ("addr:housename" :> Str(""))
                @@ ("addr:street" :> Str("Main St"))
                @@ ("addr:city" :> Str("Pune"))],
      \* a named one one degree west, no address tags
      [type |-> "node", id |-> 2, lat |-> Num(0), lon |-> Num(0 - 1),
       tags |-> ("name" :> Str("B"))],
      \* an unnamed one at the origin, postcode only
      [type |-> "node", id |-> 3, lat |-> Num(0), lon |-> Num(0),
       tags |-> ("addr:postcode" :> Str("411001"))],
      \* a node without lat and without tags
      [type |-> "node", id |-> 4, lon |-> Num(1)],
      \* a node whose lat is a string
      [type |-> "node", id |-> 5, lat |-> Str("0"), lon |-> Num(0),
       tags |-> ("name" :> Str("S"))],
      \* a node whose lon is NaN
      [type |-> "node", id |-> 6, lat |-> Num(0), lon |-> NaN,
       tags |-> ("name" :> Str("N"))],
      \* a way: no lat/lon of its own
      [type |-> "way", id |-> 7, tags |-> ("name" :> Str("W"))] }

\* An element without 'type'.
Untyped == [id |-> 8, lat |-> Num(0), lon |-> Num(0)]

NoReply == [kind |-> "none", elements |-> <<>>]

Replies ==
    {[kind |-> k, elements |-> <<>>] :
        k \in {"ConnectionError", "HTTPError", "not_json", "json_array"}}
    \cup {[kind |-> "json_object", elements |-> es] :
            es \in UNION {[1..n -> Elements] : n \in 0..MaxElements}}
    \cup {[kind |-> "json_object", elements |-> es] :
            es \in {<<Untyped>>, <<CHOOSE e \in Elements : e.id = 1,
                                   Untyped>>}}

NoResponse == [status |-> 0, json |-> FALSE, error |-> "", body |-> <<>>]

(***************************************************************************)
(* The state machine                                                       *)
(***************************************************************************)
Init ==
    /\ pc = "idle"
    /\ request = <<>>
    /\ overpass_query = <<>>
    /\ overpass_reply = NoReply
    /\ raw_results = <<>>
    /\ error_message = ""
    /\ response = NoResponse

\* POST /api/find-amenities with body `data`; `reply` is what the Overpass
\* server answers if it is asked.
FindAmenities ==
    /\ pc = "idle"
    /\ \E data \in Requests :
        LET p == parse_request(data)
        IN /\ request' = data
           /\ pc' = "done"
           /\ IF p.exc # ""
              THEN /\ response' = bad_request(p.exc)
                   /\ UNCHANGED <<overpass_query, overpass_reply,
                                  raw_results, error_message>>
              ELSE \E reply \in Replies :
                    LET f == fetch_from_overpass(p.amenity_type, reply)
                    IN /\ overpass_query' =
                            <<query_for(p.user_lat, p.user_lon,
                                        p.search_radius, p.amenity_type)>>
                       /\ overpass_reply' = reply
                       /\ raw_results' = f.items
                       /\ error_message' = f.error
                       /\ response' =
                            IF f.raised # "" THEN unhandled_response
                            ELSE IF f.error # ""
                            THEN error_response(500, f.error)
                            ELSE list_response(
                                   process_and_sort_results(
                                     p.user_lat, p.user_lon,
                                     p.search_radius, f.items))

\* The response is sent; the server waits for the next request.
Respond ==
    /\ pc = "done"
    /\ pc' = "idle"
    /\ request' = <<>>
    /\ overpass_query' = <<>>
    /\ overpass_reply' = NoReply
    /\ raw_results' = <<>>
    /\ error_message' = ""
    /\ response' = NoResponse

Next == FindAmenities \/ Respond

Spec == Init /\ [][Next]_vars

(***************************************************************************)
(* Properties                                                              *)
(***************************************************************************)
\* The request as the handler parsed it.
Parsed == parse_request(request)

Answered200 == pc = "done" /\ response.status = 200

\* A candidate whose latitude and longitude are both numbers.
WellFormed(item) == item["latitude"].t = "num" /\ item["longitude"].t = "num"

\* Its distance from the origin of the request.
Dist(item) ==
    haversine(Parsed.user_lat, Parsed.user_lon,
              item["latitude"].n, item["longitude"].n)

\* A well-formed candidate within the radius, boundary included.
Retained(item) == WellFormed(item) /\ Dist(item) <= Parsed.search_radius

\* What identifies a candidate in the input and in the result.
CandidateKeys(items) ==
    [i \in 1..Len(items) |->
        <<items[i]["name"], items[i]["latitude"].n, items[i]["longitude"].n,
          Dist(items[i])>>]

ResultKeys(body) ==
    [i \in 1..Len(body) |->
        <<body[i].name, body[i].latitude, body[i].longitude,
          body[i].distance_km>>]

Count(seq, k) == Cardinality({i \in 1..Len(seq) : seq[i] = k})

Range(seq) == {seq[i] : i \in 1..Len(seq)}

\* C1: the list returned by the ranker is ascending by distance_km.
RankedAscending ==
    Answered200 =>
        \A i, j \in 1..Len(response.body) :
            i < j => response.body[i].distance_km
                        <= response.body[j].distance_km

\* C1 witness: two retained candidates arrived farther-first and were
\* returned.
RankedAscendingWitness ==
    /\ Answered200
    /\ \E p, q \in 1..Len(raw_results) :
        /\ p < q
        /\ Retained(raw_results[p])
        /\ Retained(raw_results[q])
        /\ Dist(raw_results[p]) > Dist(raw_results[q])
    /\ Len(response.body) >= 2

FetchSucceeded ==
    /\ pc = "done"
    /\ overpass_reply.kind = "json_object"
    /\ \A i \in 1..Len(overpass_reply.elements) :
        "type" \in DOMAIN overpass_reply.elements[i]

\* C3: a candidate with a missing or non-numeric coordinate is never
\* returned, and the search answers as if it had not been in the list.
MalformedIsolated ==
    FetchSucceeded =>
        /\ response.status = 200
        /\ response.body =
             process_and_sort_results(Parsed.user_lat, Parsed.user_lon,
                 Parsed.search_radius, SelectSeq(raw_results, WellFormed))
        /\ \A k \in Range(ResultKeys(response.body)) :
             k \in Range(CandidateKeys(SelectSeq(raw_results, WellFormed)))

\* C3 witness: a malformed candidate stands between two retained ones, and
\* both are returned.
MalformedIsolatedWitness ==
    /\ Answered200
    /\ Len(raw_results) = 3
    /\ Retained(raw_results[1])
    /\ ~WellFormed(raw_results[2])
    /\ Retained(raw_results[3])
    /\ Len(response.body) = 2

\* The member of the request is missing or is a string float() rejects.
Unparseable(k) ==
    \/ k \notin DOMAIN request
    \/ request[k].t = "str" /\ request[k].s \notin DOMAIN NumericStrings

\* C4: a request whose user_lat or user_lon is missing or unparseable is
\* answered 400 with an error body, and Overpass is never queried.
BadCoordinatesRejected ==
    (pc = "done" /\ (Unparseable("user_lat") \/ Unparseable("user_lon"))) =>
        /\ response.status = 400
        /\ response.json
        /\ response.error # ""
        /\ overpass_query = <<>>
        /\ overpass_reply = NoReply

\* C4 witness: only user_lat is bad (an unparseable string) and the answer
\* is 400.
BadCoordinatesRejectedWitness ==
    /\ pc = "done"
    /\ ~Unparseable("user_lon")
    /\ ~Unparseable("radius")
    /\ "user_lat" \in DOMAIN request
    /\ request["user_lat"] = Str("abc")
    /\ response.status = 400

\* The coordinates of the request parse and lie in [-90, 90] x [-180, 180].
OriginInRange ==
    /\ ~Unparseable("user_lat")
    /\ ~Unparseable("user_lon")
    /\ Parsed.user_lat \in (0 - 90)..90
    /\ Parsed.user_lon \in (0 - 180)..180

\* C5, as claimed: a request with radius <= 0 (its coordinates being
\* valid) is answered 400 before anything is fetched.
NonPositiveRadiusRejected ==
    (/\ pc = "done"
     /\ OriginInRange
     /\ "radius" \in DOMAIN request
     /\ request["radius"].t = "num"
     /\ request["radius"].n <= 0) =>
        response.status = 400 /\ overpass_query = <<>>

\* C6, as claimed: a request (with a positive radius) whose latitude is
\* outside [-90, 90] or whose longitude is outside [-180, 180] ends in a
\* validation error and its origin reaches neither the fetch nor the ranker.
OutOfRangeOriginRejected ==
    (/\ pc = "done"
     /\ ~Unparseable("user_lat")
     /\ ~Unparseable("user_lon")
     /\ ~Unparseable("radius")
     /\ Parsed.search_radius > 0
     /\ \/ Parsed.user_lat \notin (0 - 90)..90
        \/ Parsed.user_lon \notin (0 - 180)..180) =>
        response.status = 400 /\ overpass_query = <<>>

\* The fetch failed: network error, non-2xx status or malformed payload.
FetchFailed ==
    /\ pc = "done"
    /\ overpass_query # <<>>
    /\ \/ overpass_reply.kind
            \in {"ConnectionError", "HTTPError", "not_json", "json_array"}
       \/ \E i \in 1..Len(overpass_reply.elements) :
            "type" \notin DOMAIN overpass_reply.elements[i]

\* C7, as claimed: every failed fetch (of a request with valid coordinates
\* and a positive radius) ends in status 500 with an {error: string} body
\* carrying a detail, and no list.
UpstreamFailureIs500 ==
    (FetchFailed /\ OriginInRange /\ Parsed.search_radius > 0) =>
        /\ response.status = 500
        /\ response.json
        /\ response.error # ""
        /\ response.body = <<>>

\* C8, as claimed: every returned address (of a search with valid
\* coordinates and a positive radius) is the address of the source record
\* it was made from.
AddressFromSource ==
    (Answered200 /\ OriginInRange /\ Parsed.search_radius > 0) =>
        \A i \in 1..Len(response.body) :
            \E p \in 1..Len(raw_results) :
                /\ WellFormed(raw_results[p])
                /\ CandidateKeys(raw_results)[p]
                     = ResultKeys(response.body)[i]
                /\ response.body[i].address = raw_results[p]["address"]

\* The amenity kind requested, pharmacy by default.
RequestedKind == get(request, "amenity_type", Str("pharmacy")).s

\* C9: a pharmacy search queries pharmacy and hospital, a hospital search
\* queries hospital only.
CategoriesByKind ==
    (pc = "done" /\ overpass_query # <<>>) =>
        /\ Len(overpass_query) = 1
        /\ RequestedKind = "pharmacy" =>
             overpass_query[1].amenities = <<"pharmacy", "hospital">>
        /\ RequestedKind = "hospital" =>
             overpass_query[1].amenities = <<"hospital">>

\* C9 witness: a pharmacy search has queried both categories.
CategoriesByKindWitness ==
    /\ pc = "done"
    /\ overpass_query # <<>>
    /\ RequestedKind = "pharmacy"
    /\ overpass_query[1].amenities = <<"pharmacy", "hospital">>

\* C10: candidates at equal distance are returned in their input order.
StableTies ==
    Answered200 =>
        LET kept == CandidateKeys(SelectSeq(raw_results, Retained))
            got == ResultKeys(response.body)
        IN \A d \in {got[i][4] : i \in 1..Len(got)} :
            LET AtD(k) == k[4] = d
            IN SelectSeq(got, AtD) = SelectSeq(kept, AtD)

\* C10 witness: two different candidates at the same distance are returned.
StableTiesWitness ==
    /\ Answered200
    /\ \E i, j \in 1..Len(response.body) :
        /\ i < j
        /\ response.body[i].distance_km = response.body[j].distance_km
        /\ response.body[i].name # response.body[j].name

====
